---- MODULE Spec2Model ----
(***************************************************************************)
(* Model of the genesys dice command parser (src/src/lib.rs).              *)
(*                                                                         *)
(* A string is a sequence of one-character strings.  A u32 is kept at its  *)
(* full 32-bit width as two 16-bit limbs [hi, lo] (value hi * 2^16 + lo).  *)
(* A nom IResult is a record whose tag is "Ok" (with the remaining input   *)
(* rem and the value val), "Error" (a recoverable nom error) or "Panic"    *)
(* (the thread unwound out of the parser).                                 *)
(***************************************************************************)
EXTENDS Integers, Sequences, FiniteSets, TLC

VARIABLES
    input,            \* the &str handed to the entry point under analysis
    overflow_checks,  \* build profile: TRUE = u32 `+=` panics on overflow, FALSE = it wraps
    pc,               \* "start", "parsed", "rendered", "reparsed", "resolved"
    result,           \* what parse_line(input) returned
    resolved,         \* what parse_dice_as_value(input) returned
    rendered,         \* a group of result written back as text
    source_group,     \* index in result.groups of the group that was rendered
    result2           \* what parse_line(rendered) returned

vars == <<input, overflow_checks, pc, result, resolved, rendered, source_group, result2>>

-----------------------------------------------------------------------------
(* Characters *)

LowerLetters ==
    <<"a","b","c","d","e","f","g","h","i","j","k","l","m",
      "n","o","p","q","r","s","t","u","v","w","x","y","z">>

UpperLetters ==
    <<"A","B","C","D","E","F","G","H","I","J","K","L","M",
      "N","O","P","Q","R","S","T","U","V","W","X","Y","Z">>

Digits == <<"0","1","2","3","4","5","6","7","8","9">>

IsDigit(c) == \E d \in 1..10 : Digits[d] = c

DigitValue(c) == (CHOOSE d \in 1..10 : Digits[d] = c) - 1

\* char::to_lowercase on the ASCII range
ToLower(c) ==
    IF \E k \in 1..26 : UpperLetters[k] = c
    THEN LowerLetters[CHOOSE k \in 1..26 : UpperLetters[k] = c]
    ELSE c

ToUpper(c) ==
    IF \E k \in 1..26 : LowerLetters[k] = c
    THEN UpperLetters[CHOOSE k \in 1..26 : LowerLetters[k] = c]
    ELSE c

\* char::is_whitespace on the ASCII range, as used by str::trim
IsWhitespace(c) == c \in {" ", "\t", "\n", "\r", "\f"}

DropFirst(s, n) == SubSeq(s, n + 1, Len(s))

-----------------------------------------------------------------------------
(* u32 *)

Limb == 65536

U32(hi, lo) == [hi |-> hi, lo |-> lo]

U32Zero == U32(0, 0)
U32One == U32(0, 1)

\* u32 addition: [overflow, val] with val the sum reduced modulo 2^32
OverflowingAdd(a, b) ==
    LET lo == a.lo + b.lo
        hi == a.hi + b.hi + (lo \div Limb)
    IN  [overflow |-> hi >= Limb, val |-> U32(hi % Limb, lo % Limb)]

\* <u32 as FromStr>::from_str on a non-empty run of ASCII digits:
\* result = result * 10 + digit with checked arithmetic; Err(PosOverflow) past u32::MAX
RECURSIVE FromStrRadix10(_, _)
FromStrRadix10(digits, acc) ==
    IF digits = <<>> THEN [ok |-> TRUE, val |-> acc]
    ELSE LET lo == acc.lo * 10 + DigitValue(Head(digits))
             hi == acc.hi * 10 + (lo \div Limb)
         IN  IF hi >= Limb THEN [ok |-> FALSE, val |-> U32Zero]
             ELSE FromStrRadix10(Tail(digits), U32(hi, lo % Limb))

str_parse(digits) == FromStrRadix10(digits, U32Zero)

-----------------------------------------------------------------------------
(* nom results *)

Ok(rem, val) == [tag |-> "Ok", rem |-> rem, val |-> val]
Error == [tag |-> "Error", rem |-> <<>>, val |-> <<>>]
Panic == [tag |-> "Panic", rem |-> <<>>, val |-> <<>>]

\* bytes::complete::tag: as tag_no_case, but the letters must match exactly
tag_case_sensitive(t, i) ==
    IF /\ Len(i) >= Len(t)
       /\ \A k \in 1..Len(t) : i[k] = t[k]
    THEN Ok(DropFirst(i, Len(t)), SubSeq(i, 1, Len(t)))
    ELSE Error

\* bytes::complete::tag_no_case
tag_no_case(t, i) ==
    IF /\ Len(i) >= Len(t)
       /\ \A k \in 1..Len(t) : ToLower(i[k]) = ToLower(t[k])
    THEN Ok(DropFirst(i, Len(t)), SubSeq(i, 1, Len(t)))
    ELSE Error

\* character::complete::digit1
RECURSIVE DigitRunLen(_)
DigitRunLen(i) ==
    IF i # <<>> /\ IsDigit(Head(i)) THEN 1 + DigitRunLen(Tail(i)) ELSE 0

digit1_take(i, n) ==
    IF n = 0 THEN Error ELSE Ok(DropFirst(i, n), SubSeq(i, 1, n))

digit1(i) == digit1_take(i, DigitRunLen(i))

-----------------------------------------------------------------------------
(* Dice and the alias table *)

Dice == {"Boost", "Ability", "Proficiency", "Setback", "Difficulty", "Challenge", "Force"}

DiceRoll(die, n) == [die |-> die, number_of_dice_to_roll |-> n]

\* the alias table with the one-letter alias of each kind listed first
AliasTableShortFirst ==
    << [die |-> "Ability",
        tags |-> << <<"g">>, <<"g","r","e","e","n">>,
                    <<"a","b","i","l","i","t","y">>, <<"a","b","i","l">> >>],
       [die |-> "Challenge",
        tags |-> << <<"r">>, <<"c","h","a","l","l","e","n","g","e">>, <<"c","h","a">>,
                    <<"r","e","d">> >>],
       [die |-> "Proficiency",
        tags |-> << <<"y">>, <<"p","r","o","f","i","c","i","e","n","c","y">>,
                    <<"p","r","o","f">>, <<"y","e","l","l","o","w">> >>],
       [die |-> "Difficulty",
        tags |-> << <<"p">>, <<"d","i","f","f","i","c","u","l","t","y">>,
                    <<"p","u","r","p","l","e">>, <<"d","i","f","f">>, <<"d","i","f">> >>],
       [die |-> "Setback",
        tags |-> << <<"k">>, <<"b","l","a","c","k">>,
                    <<"s","e","t","b","a","c","k">>, <<"s">> >>],
       [die |-> "Force",
        tags |-> << <<"w">>, <<"f","o","r","c","e">>, <<"w","h","i","t","e">> >>],
       [die |-> "Boost",
        tags |-> << <<"b">>, <<"b","l","u","e">>, <<"b","o","o","s","t">> >> ] >>

\* the alternatives of parse_dice_as_value, in source order
AliasTable ==
    << [die |-> "Ability",
        tags |-> << <<"g","r","e","e","n">>, <<"g">>,
                    <<"a","b","i","l","i","t","y">>, <<"a","b","i","l">> >>],
       [die |-> "Challenge",
        tags |-> << <<"c","h","a","l","l","e","n","g","e">>, <<"c","h","a">>,
                    <<"r","e","d">>, <<"r">> >>],
       [die |-> "Proficiency",
        tags |-> << <<"p","r","o","f","i","c","i","e","n","c","y">>, <<"p","r","o","f">>,
                    <<"y","e","l","l","o","w">>, <<"y">> >>],
       [die |-> "Difficulty",
        tags |-> << <<"d","i","f","f","i","c","u","l","t","y">>, <<"p","u","r","p","l","e">>,
                    <<"p">>, <<"d","i","f","f">>, <<"d","i","f">> >>],
       [die |-> "Setback",
        tags |-> << <<"b","l","a","c","k">>, <<"k">>,
                    <<"s","e","t","b","a","c","k">>, <<"s">> >>],
       [die |-> "Force",
        tags |-> << <<"f","o","r","c","e">>, <<"w","h","i","t","e">>, <<"w">> >>],
       [die |-> "Boost",
        tags |-> << <<"b","l","u","e">>, <<"b","o","o","s","t">>, <<"b">> >> ] >>

\* inner branch::alt over the tags of one kind: the first tag that matches wins
RECURSIVE alt_tags(_, _, _)
alt_tags_try(tags, k, i, r) ==
    IF r.tag = "Ok" THEN r ELSE alt_tags(tags, k + 1, i)

alt_tags(tags, k, i) ==
    IF k > Len(tags) THEN Error
    ELSE alt_tags_try(tags, k, i, tag_no_case(tags[k], i))

\* outer branch::alt over combinator::value(kind, alt(tags))
RECURSIVE alt_kinds(_, _, _)
alt_kinds_try(table, k, i, r) ==
    IF r.tag = "Ok" THEN Ok(r.rem, table[k].die)
    ELSE alt_kinds(table, k + 1, i)

alt_kinds(table, k, i) ==
    IF k > Len(table) THEN Error
    ELSE alt_kinds_try(table, k, i, alt_tags(table[k].tags, 1, i))

parse_dice_as_value(i) == alt_kinds(AliasTable, 1, i)

-----------------------------------------------------------------------------
(* The parsers *)

\* DiceRoll::new(dice, number_of_dice.map_or(Ok(1), str::parse).unwrap()):
\* n is what str::parse returned for the digits; unwrap panics on its Err
parse_dice_unwrap(dice, n) ==
    IF n.ok THEN Ok(dice.rem, DiceRoll(dice.val, n.val)) ELSE Panic

\* the match on the result of the tuple
parse_dice_match(number_of_dice, dice) ==
    IF dice.tag # "Ok" THEN Error
    ELSE IF number_of_dice.tag # "Ok"
         THEN Ok(dice.rem, DiceRoll(dice.val, U32One))
         ELSE parse_dice_unwrap(dice, str_parse(number_of_dice.val))

\* the second parser of the tuple runs on what opt(digit1) left
parse_dice_tuple(i, number_of_dice) ==
    parse_dice_match(number_of_dice,
        parse_dice_as_value(IF number_of_dice.tag = "Ok" THEN number_of_dice.rem ELSE i))

\* tuple((opt(digit1), parse_dice_as_value)), then the count is parsed and unwrapped
parse_dice(i) == parse_dice_tuple(i, digit1(i))

\* multi::many1(parse_dice): the loop after the first element
RECURSIVE many1_loop(_, _)
many1_next(i, acc, r) ==
    CASE r.tag = "Error" -> Ok(i, acc)
      [] r.tag = "Panic" -> Panic
      [] OTHER -> IF Len(r.rem) = Len(i) THEN Error
                  ELSE many1_loop(r.rem, Append(acc, r.val))

many1_loop(i, acc) == many1_next(i, acc, parse_dice(i))

many1_first(first) ==
    IF first.tag # "Ok" THEN first ELSE many1_loop(first.rem, <<first.val>>)

many1_parse_dice(i) == many1_first(parse_dice(i))

\* dice_counts.entry(die).or_insert(0): the count the entry holds, 0 when new
EntryOrInsert(dice_counts, die) ==
    IF die \in DOMAIN dice_counts THEN dice_counts[die] ELSE U32Zero

\* the for_each over rolls with a new entry started at 1 instead of 0
RECURSIVE AccumulateFromOne(_, _)
AccumulateFromOne(rolls, dice_counts) ==
    IF rolls = <<>> THEN [panic |-> FALSE, counts |-> dice_counts]
    ELSE LET roll == Head(rolls)
             group == IF roll.die \in DOMAIN dice_counts
                      THEN dice_counts[roll.die] ELSE U32One
             sum == OverflowingAdd(group, roll.number_of_dice_to_roll)
         IN  IF sum.overflow /\ overflow_checks
             THEN [panic |-> TRUE, counts |-> dice_counts]
             ELSE AccumulateFromOne(Tail(rolls),
                             [d \in DOMAIN dice_counts \cup {roll.die} |->
                                 IF d = roll.die THEN sum.val ELSE dice_counts[d]])

\* the for_each over rolls: *dice_counts.entry(die).or_insert(0) += number_of_dice_to_roll
\* dice_counts is a function from the kinds met so far to their u32 count
RECURSIVE Accumulate(_, _)
AccumulateAdd(rolls, dice_counts, die, sum) ==
    IF sum.overflow /\ overflow_checks
    THEN [panic |-> TRUE, counts |-> dice_counts]
    ELSE Accumulate(Tail(rolls),
                    [d \in DOMAIN dice_counts \cup {die} |->
                        IF d = die THEN sum.val ELSE dice_counts[d]])

Accumulate(rolls, dice_counts) ==
    IF rolls = <<>> THEN [panic |-> FALSE, counts |-> dice_counts]
    ELSE AccumulateAdd(rolls, dice_counts, Head(rolls).die,
             OverflowingAdd(EntryOrInsert(dice_counts, Head(rolls).die),
                            Head(rolls).number_of_dice_to_roll))

EmptyMap == [d \in {} |-> U32Zero]

parse_group_emit(rem, a) == IF a.panic THEN Panic ELSE Ok(rem, a.counts)

parse_group_fold(m) ==
    IF m.tag # "Ok" THEN m ELSE parse_group_emit(m.rem, Accumulate(m.val, EmptyMap))

\* parse_group up to the HashMap; val is dice_counts
parse_group(i) == parse_group_fold(many1_parse_dice(i))

\* parse_groups with the first group pushed after the groups of the tail
RECURSIVE parse_groups_tail_first(_)
parse_groups_tail_first(i) ==
    LET first == parse_group(i)
    IN  IF first.tag # "Ok" THEN first
        ELSE IF first.rem # <<>> /\ Head(first.rem) = ","
             THEN LET other_groups == parse_groups_tail_first(Tail(first.rem))
                  IN  CASE other_groups.tag = "Ok" ->
                               Ok(other_groups.rem, other_groups.val \o <<first.val>>)
                        [] other_groups.tag = "Panic" -> Panic
                        [] OTHER -> Ok(first.rem, <<first.val>>)
             ELSE Ok(first.rem, <<first.val>>)

\* tuple((parse_group, opt(tuple((char(','), parse_groups))))), first group pushed first
RECURSIVE parse_groups(_)
\* rolls.push(group_rolls); rolls.extend(other_groups_rolls); opt gives None
\* (and the comma is not consumed) when the tail fails with a nom error
parse_groups_extend(first, other_groups) ==
    CASE other_groups.tag = "Ok" ->
             Ok(other_groups.rem, <<first.val>> \o other_groups.val)
      [] other_groups.tag = "Panic" -> Panic
      [] OTHER -> Ok(first.rem, <<first.val>>)

parse_groups_tuple(first) ==
    IF first.tag # "Ok" THEN first
    ELSE IF first.rem # <<>> /\ Head(first.rem) = ","
         THEN parse_groups_extend(first, parse_groups(Tail(first.rem)))
         ELSE Ok(first.rem, <<first.val>>)

parse_groups(i) == parse_groups_tuple(parse_group(i))

\* a replace that drops every character that is neither a letter, a digit
\* nor a comma, instead of the spaces alone
RECURSIVE RemoveAllButTokens(_)
RemoveAllButTokens(s) ==
    IF s = <<>> THEN <<>>
    ELSE IF \/ IsDigit(Head(s))
            \/ Head(s) = ","
            \/ \E k \in 1..26 : ToLower(Head(s)) = LowerLetters[k]
         THEN <<Head(s)>> \o RemoveAllButTokens(Tail(s))
         ELSE RemoveAllButTokens(Tail(s))

\* str::replace(" ", "")
RECURSIVE RemoveSpaces(_)
RemoveSpaces(s) ==
    IF s = <<>> THEN <<>>
    ELSE IF Head(s) = " " THEN RemoveSpaces(Tail(s))
         ELSE <<Head(s)>> \o RemoveSpaces(Tail(s))

\* str::trim
RECURSIVE TrimStart(_)
TrimStart(s) ==
    IF s # <<>> /\ IsWhitespace(Head(s)) THEN TrimStart(Tail(s)) ELSE s

RECURSIVE TrimEnd(_)
TrimEnd(s) ==
    IF s # <<>> /\ IsWhitespace(s[Len(s)]) THEN TrimEnd(SubSeq(s, 1, Len(s) - 1)) ELSE s

Trim(s) == TrimEnd(TrimStart(s))

\* parse_line without the check of the remaining input
parse_line_unchecked(i) ==
    LET r == parse_groups(RemoveSpaces(i))
    IN  CASE r.tag = "Ok" -> [tag |-> "Ok", groups |-> r.val]
          [] r.tag = "Error" -> [tag |-> "ParseError", groups |-> <<>>]
          [] r.tag = "Incomplete" -> [tag |-> "Unknown", groups |-> <<>>]
          [] OTHER -> [tag |-> "Panic", groups |-> <<>>]

\* the match on the result of parse_groups
parse_line_match(r) ==
    CASE r.tag = "Ok" ->
             IF Trim(r.rem) # <<>>
             THEN [tag |-> "ParseError", groups |-> <<>>]
             ELSE [tag |-> "Ok", groups |-> r.val]
      [] r.tag = "Error" -> [tag |-> "ParseError", groups |-> <<>>]
      [] r.tag = "Incomplete" -> [tag |-> "Unknown", groups |-> <<>>]
      [] OTHER -> [tag |-> "Panic", groups |-> <<>>]

\* parse_line up to the order of the entries inside each group; groups is a
\* sequence of dice_counts maps
parse_line(i) == parse_line_match(parse_groups(RemoveSpaces(i)))

\* dice_counts.into_iter().map(DiceRoll::new).collect(): every iteration order
Collect(dice_counts) ==
    LET n == Cardinality(DOMAIN dice_counts)
        Orders == {o \in [1..n -> DOMAIN dice_counts] :
                      \A a, b \in 1..n : a # b => o[a] # o[b]}
    IN  {[k \in 1..n |-> DiceRoll(o[k], dice_counts[o[k]])] : o \in Orders}

RECURSIVE CollectAll(_)
CollectAll(maps) ==
    IF maps = <<>> THEN {<<>>}
    ELSE {<<g>> \o rest : g \in Collect(Head(maps)), rest \in CollectAll(Tail(maps))}

\* every value parse_line can return: r with each group in every order
ResultsOf(r) == {[tag |-> r.tag, groups |-> gs] : gs \in CollectAll(r.groups)}

ParseLineResults(i) == ResultsOf(parse_line(i))

-----------------------------------------------------------------------------
(* Writing a group back as text *)

\* <u32 as Display>::fmt: decimal, no leading zeros, "0" for zero
RECURSIVE ToDecimal(_)
ToDecimal(n) ==
    LET q_hi == n.hi \div 10
        mid == (n.hi % 10) * Limb + n.lo
        q == U32(q_hi, mid \div 10)
        last == <<Digits[(mid % 10) + 1]>>
    IN  IF q = U32Zero THEN last ELSE ToDecimal(q) \o last

AliasesOf(die) ==
    LET row == CHOOSE k \in 1..Len(AliasTable) : AliasTable[k].die = die
    IN  {AliasTable[row].tags[a] : a \in 1..Len(AliasTable[row].tags)}

\* the texts "<count><alias>..." of the entries of group, in the order of group,
\* with every choice of an alias for each entry
RECURSIVE Renderings(_)
Renderings(group) ==
    IF group = <<>> THEN {<<>>}
    ELSE {ToDecimal(Head(group).number_of_dice_to_roll) \o alias \o rest :
              alias \in AliasesOf(Head(group).die), rest \in Renderings(Tail(group))}

-----------------------------------------------------------------------------
(* Inputs *)

MaxPieces == 3
MaxListPieces == 5
MaxRoundTripPieces == 3
MaxTail == 1

\* fragments a command line is put together from
Pieces ==
    { <<"g">>, <<"p">>, <<"d">>, <<"k","b">>,
      <<"0">>, <<"2">>,
      <<"4","2","9","4","9","6","7","2","9","5">>,
      <<"4","2","9","4","9","6","7","2","9","6">>,
      <<",">>, <<" ">>, <<"\t">>, <<"\n">>, <<"*">> }

\* fragments of comma-separated lists of several groups
ListPieces == { <<"g">>, <<"2","p">>, <<"k">>, <<",">> }

\* fragments of the lines whose groups are written back as text
RoundTripPieces ==
    { <<"g">>, <<"0","p">>, <<"7","w">>,
      <<"4","2","9","4","9","6","7","2","9","5","g">>, <<",">> }

RECURSIVE Lines(_, _)
Lines(pieces, n) ==
    IF n = 0 THEN {<<>>}
    ELSE LET shorter == Lines(pieces, n - 1)
         IN  shorter \cup {s \o p : s \in shorter, p \in pieces}

NoResult == [tag |-> "None", groups |-> <<>>]

-----------------------------------------------------------------------------
(* Specification of parse_line *)

InitWith(inputs) ==
    /\ input \in inputs
    /\ overflow_checks \in BOOLEAN
    /\ pc = "start"
    /\ result = NoResult
    /\ resolved = Error
    /\ rendered = <<>>
    /\ source_group = 0
    /\ result2 = NoResult

Init == InitWith(Lines(Pieces, MaxPieces) \cup Lines(ListPieces, MaxListPieces))

\* the caller invokes parse_line(input)
ParseLine ==
    /\ pc = "start"
    /\ result' \in ParseLineResults(input)
    /\ pc' = "parsed"
    /\ UNCHANGED <<input, overflow_checks, resolved, rendered, source_group, result2>>

Next == ParseLine

Spec == Init /\ [][Next]_vars

-----------------------------------------------------------------------------
(* Specification of the round trip: a returned group written as text, parsed again *)

InitRoundTrip == InitWith(Lines(RoundTripPieces, MaxRoundTripPieces))

\* the caller writes one returned group as "<count><alias>" tokens; the entries
\* of a returned group come in every order (Collect), so every entry order is written
Render ==
    /\ pc = "parsed"
    /\ result.tag = "Ok"
    /\ \E g \in 1..Len(result.groups) :
          /\ source_group' = g
          /\ rendered' \in Renderings(result.groups[g])
    /\ pc' = "rendered"
    /\ UNCHANGED <<input, overflow_checks, result, resolved, result2>>

\* the caller invokes parse_line on the text it wrote
Reparse ==
    /\ pc = "rendered"
    /\ result2' \in ParseLineResults(rendered)
    /\ pc' = "reparsed"
    /\ UNCHANGED <<input, overflow_checks, result, resolved, rendered, source_group>>

NextRoundTrip == ParseLine \/ Render \/ Reparse

SpecRoundTrip == InitRoundTrip /\ [][NextRoundTrip]_vars

-----------------------------------------------------------------------------
(* Specification of the alias resolver on its own *)

AllAliases ==
    UNION {{AliasTable[row].tags[a] : a \in 1..Len(AliasTable[row].tags)} :
              row \in 1..Len(AliasTable)}

\* every upper/lower-case variant of a lower-case text
RECURSIVE Casings(_)
Casings(t) ==
    IF t = <<>> THEN {<<>>}
    ELSE {<<c>> \o rest : c \in {Head(t), ToUpper(Head(t))}, rest \in Casings(Tail(t))}

AliasPrefixes == UNION {{SubSeq(a, 1, n) : n \in 0..Len(a)} : a \in AllAliases}

\* characters that may follow: every letter of an alias, a capital, a digit, a comma
TailChars ==
    UNION {{a[k] : k \in 1..Len(a)} : a \in AllAliases} \cup {"P", "2", ","}

RECURSIVE Tails(_)
Tails(n) ==
    IF n = 0 THEN {<<>>}
    ELSE LET shorter == Tails(n - 1)
         IN  shorter \cup {t \o <<c>> : t \in shorter, c \in TailChars}

AliasInputs ==
    UNION {Casings(a) : a \in AllAliases}
        \cup {p \o t : p \in AliasPrefixes, t \in Tails(MaxTail)}

InitAlias == InitWith(AliasInputs)

\* a caller (the unit tests) invokes parse_dice_as_value(input)
Resolve ==
    /\ pc = "start"
    /\ resolved' = parse_dice_as_value(input)
    /\ pc' = "resolved"
    /\ UNCHANGED <<input, overflow_checks, result, rendered, source_group, result2>>

NextAlias == Resolve

SpecAlias == InitAlias /\ [][NextAlias]_vars

-----------------------------------------------------------------------------
(* Vocabulary of the properties *)

\* the line with its ASCII spaces left out
WithoutSpaces(s) == SelectSeq(s, LAMBDA c : c # " ")

\* the comma-separated segments of a text, left to right
RECURSIVE Segments(_, _)
Segments(s, current) ==
    IF s = <<>> THEN <<current>>
    ELSE IF Head(s) = "," THEN <<current>> \o Segments(Tail(s), <<>>)
         ELSE Segments(Tail(s), Append(current, Head(s)))

SegmentsOf(line) == Segments(WithoutSpaces(line), <<>>)

\* the (count, kind) tokens at the front of a segment, before aggregation
TokensOf(segment) ==
    LET m == many1_parse_dice(segment) IN IF m.tag = "Ok" THEN m.val ELSE <<>>

\* the arithmetic sum of the counts of the tokens of one kind, as an
\* unbounded number hi * 2^16 + lo with lo < 2^16
RECURSIVE ExactSum(_, _)
ExactSum(tokens, die) ==
    IF tokens = <<>> THEN U32Zero
    ELSE LET rest == ExactSum(Tail(tokens), die)
             n == Head(tokens).number_of_dice_to_roll
         IN  IF Head(tokens).die # die THEN rest
             ELSE U32(rest.hi + n.hi + ((rest.lo + n.lo) \div Limb), (rest.lo + n.lo) % Limb)

KindsOf(tokens) == {tokens[k].die : k \in 1..Len(tokens)}

EntriesOf(group) == {group[k] : k \in 1..Len(group)}

Occurrences(group, entry) == Cardinality({k \in 1..Len(group) : group[k] = entry})

SameMultiset(g, h) ==
    \A e \in EntriesOf(g) \cup EntriesOf(h) : Occurrences(g, e) = Occurrences(h, e)

\* group holds one entry per kind of tokens and each count is the exact sum
IsExactAggregate(group, tokens) ==
    /\ Len(group) = Cardinality(KindsOf(tokens))
    /\ {group[k].die : k \in 1..Len(group)} = KindsOf(tokens)
    /\ \A k \in 1..Len(group) :
          group[k].number_of_dice_to_roll = ExactSum(tokens, group[k].die)

\* t is a case-insensitive prefix of s from position j on
MatchesAt(t, s, j) ==
    /\ j + Len(t) - 1 <= Len(s)
    /\ \A k \in 1..Len(t) : ToLower(s[j + k - 1]) = ToLower(t[k])

\* position k of s lies inside some occurrence of an alias
CoveredByAlias(s, k) ==
    \E a \in AllAliases : \E j \in 1..k : k < j + Len(a) /\ MatchesAt(a, s, j)

\* s holds a run of digits that does not fit in a u32 and is followed by an alias
HasOverflowingCount(s) ==
    \E j \in 1..Len(s) :
        /\ IsDigit(s[j])
        /\ (j = 1 \/ ~IsDigit(s[j - 1]))
        /\ LET run == digit1(DropFirst(s, j - 1))
           IN  /\ ~str_parse(run.val).ok
               /\ \E a \in AllAliases : MatchesAt(a, run.rem, 1)

-----------------------------------------------------------------------------
(* C1 *)

\* C1: whenever a token of the line has a decimal count that does not fit in
\* a u32, parse_line returns ParserError::ParseError (it neither aborts nor
\* returns Ok).
C1_OverflowingCountIsParseError ==
    (pc = "parsed" /\ HasOverflowingCount(WithoutSpaces(input)))
        => result.tag = "ParseError"

-----------------------------------------------------------------------------
(* C2 *)

\* C2: "d" parses to the single group [Difficulty x1] and "ddkb" to the single
\* group {Difficulty x2, Setback x1, Boost x1}.
C2_LetterDIsDifficulty ==
    pc = "parsed" =>
        /\ input = <<"d">> =>
              /\ result.tag = "Ok"
              /\ result.groups = << <<DiceRoll("Difficulty", U32One)>> >>
        /\ input = <<"d", "d", "k", "b">> =>
              /\ result.tag = "Ok"
              /\ Len(result.groups) = 1
              /\ Len(result.groups[1]) = 3
              /\ EntriesOf(result.groups[1]) =
                     { DiceRoll("Difficulty", U32(0, 2)),
                       DiceRoll("Setback", U32One),
                       DiceRoll("Boost", U32One) }

-----------------------------------------------------------------------------
(* C3 *)

\* C3: in an accepted line every group has exactly one entry per dice kind
\* that occurs in its segment, and the entry's count is the sum of the counts
\* of the segment's tokens of that kind (a token without digits counts 1).
C3_GroupIsPerKindSum ==
    (pc = "parsed" /\ result.tag = "Ok") =>
        LET segments == SegmentsOf(input)
        IN  /\ Len(result.groups) = Len(segments)
            /\ \A g \in 1..Len(segments) :
                  IsExactAggregate(result.groups[g], TokensOf(segments[g]))

-----------------------------------------------------------------------------
(* C10 *)

\* C10: the u32 running sum of the group aggregator never goes past 2^32 - 1:
\* parse_line does not abort unless a count token itself is out of range, and
\* every count it returns is the exact sum, never the sum modulo 2^32.
C10_AccumulatorNeverOverflows ==
    pc = "parsed" =>
        /\ result.tag = "Panic" => HasOverflowingCount(WithoutSpaces(input))
        /\ result.tag = "Ok" =>
              \A g \in 1..Len(result.groups) : \A k \in 1..Len(result.groups[g]) :
                  LET tokens == TokensOf(SegmentsOf(input)[g])
                      entry == result.groups[g][k]
                  IN  entry.number_of_dice_to_roll = ExactSum(tokens, entry.die)

-----------------------------------------------------------------------------
(* C4 *)

\* C4: an accepted line of n comma-separated segments yields exactly n groups,
\* and the i-th group holds the entries the group aggregator produces for the
\* i-th segment from the left.
C4_GroupsFollowSegments ==
    (pc = "parsed" /\ result.tag = "Ok") =>
        LET segments == SegmentsOf(input)
        IN  /\ Len(result.groups) = Len(segments)
            /\ \A g \in 1..Len(segments) :
                  LET own == parse_group(segments[g])
                  IN  /\ own.tag = "Ok"
                      /\ Len(result.groups[g]) = Cardinality(DOMAIN own.val)
                      /\ EntriesOf(result.groups[g]) =
                             {DiceRoll(d, own.val[d]) : d \in DOMAIN own.val}

\* a line of three different groups has been accepted
C4_Witness ==
    /\ pc = "parsed"
    /\ result.tag = "Ok"
    /\ Len(result.groups) = 3
    /\ EntriesOf(result.groups[1]) # EntriesOf(result.groups[2])
    /\ EntriesOf(result.groups[2]) # EntriesOf(result.groups[3])
    /\ EntriesOf(result.groups[1]) # EntriesOf(result.groups[3])

-----------------------------------------------------------------------------
(* C5 *)

\* C5 as stated: whenever the group-list grammar stops before the end of the
\* space-free line, parse_line returns ParseError and no groups.
C5_AnyRemainderIsParseError ==
    pc = "parsed" =>
        LET r == parse_groups(WithoutSpaces(input))
        IN  (r.tag = "Ok" /\ r.rem # <<>>) =>
                (result.tag = "ParseError" /\ result.groups = <<>>)

\* C5 as amended: whenever the group-list grammar stops before the end of the
\* space-free line and what is left holds a character that is not white
\* space, parse_line returns ParseError and no groups.
C5_NonBlankRemainderIsParseError ==
    pc = "parsed" =>
        LET r == parse_groups(WithoutSpaces(input))
        IN  (r.tag = "Ok" /\ \E k \in 1..Len(r.rem) : ~IsWhitespace(r.rem[k])) =>
                (result.tag = "ParseError" /\ result.groups = <<>>)

\* a line with a valid group followed by a trailing comma has been rejected
C5_Witness ==
    /\ pc = "parsed"
    /\ Len(input) >= 2
    /\ input[Len(input)] = ","
    /\ parse_groups(WithoutSpaces(input)).tag = "Ok"
    /\ parse_groups(WithoutSpaces(input)).rem = <<",">>
    /\ result.tag = "ParseError"

-----------------------------------------------------------------------------
(* C7 *)

-----------------------------------------------------------------------------
(* C8 *)

\* C8: a group returned by a successful parse, written as the concatenation
\* of "<count><alias>" tokens (any entry order, any alias of the kind, zero
\* counts included) and parsed again, gives exactly one group with the same
\* multiset of (kind, count) entries.
C8_RoundTrip ==
    pc = "reparsed" =>
        /\ result2.tag = "Ok"
        /\ Len(result2.groups) = 1
        /\ SameMultiset(result2.groups[1], result.groups[source_group])

\* a group of several kinds, one of them with count 0 and one with a count
\* above 1, has made the round trip
C8_Witness ==
    /\ pc = "reparsed"
    /\ Len(result.groups[source_group]) >= 2
    /\ \E k \in 1..Len(result.groups[source_group]) :
          result.groups[source_group][k].number_of_dice_to_roll = U32Zero
    /\ \E k \in 1..Len(result.groups[source_group]) :
          result.groups[source_group][k].number_of_dice_to_roll.lo > 1
    /\ result2.tag = "Ok"

-----------------------------------------------------------------------------
(* C6 *)

IsCasingOf(s, alias) ==
    /\ Len(s) = Len(alias)
    /\ \A k \in 1..Len(alias) : s[k] \in {alias[k], ToUpper(alias[k])}

\* C6: the resolver applied to any upper/lower-case variant of an alias of
\* the table succeeds with the kind of that alias and an empty remainder.
C6_EveryAliasResolves ==
    pc = "resolved" =>
        \A row \in 1..Len(AliasTable) : \A a \in 1..Len(AliasTable[row].tags) :
            IsCasingOf(input, AliasTable[row].tags[a]) =>
                /\ resolved.tag = "Ok"
                /\ resolved.val = AliasTable[row].die
                /\ resolved.rem = <<>>

\* a mixed-case "diff", which has the alias "dif" as a prefix, has been resolved
C6_Witness ==
    /\ pc = "resolved"
    /\ input = <<"D", "i", "F", "f">>
    /\ resolved.tag = "Ok"

-----------------------------------------------------------------------------
(* C9 *)

\* the <<row, index>> places of the table whose alias starts the text
MatchingPlaces(s) ==
    {pl \in UNION {{<<row, a>> : a \in 1..Len(AliasTable[row].tags)} :
                      row \in 1..Len(AliasTable)} :
        MatchesAt(AliasTable[pl[1]].tags[pl[2]], s, 1)}

PlaceLen(pl) == Len(AliasTable[pl[1]].tags[pl[2]])

\* C9: the ordered first-match resolver consumes the longest alias of the
\* whole table that starts the input and returns that alias's kind; it fails
\* exactly when no alias starts the input.
C9_FirstMatchIsLongestMatch ==
    pc = "resolved" =>
        LET places == MatchingPlaces(input)
        IN  IF places = {} THEN resolved.tag = "Error"
            ELSE LET best == CHOOSE pl \in places :
                                 \A other \in places : PlaceLen(other) <= PlaceLen(pl)
                 IN  /\ resolved.tag = "Ok"
                     /\ resolved.val = AliasTable[best[1]].die
                     /\ resolved.rem = DropFirst(input, PlaceLen(best))

\* an input that three aliases start (dif, diff, difficulty), followed by
\* more text, has been resolved
C9_Witness ==
    /\ pc = "resolved"
    /\ Cardinality(MatchingPlaces(input)) >= 3
    /\ Len(input) > 10
    /\ resolved.tag = "Ok"

====
